---- MODULE Spec2Model ----
(***************************************************************************)
(* Matrix sheet -> quotation rows converter (src/lib/transform.ts and the  *)
(* POST /api/convert route).                                               *)
(*                                                                         *)
(* Representation                                                          *)
(*  - a JavaScript string is a sequence of one-character strings, so that  *)
(*    trim, whitespace stripping, lower-casing, comma removal and          *)
(*    parseFloat are computed character by character;                      *)
(*  - a JavaScript number is a decimal fixed-point integer counting        *)
(*    1/Scale units (Scale = 1000): 0.8 is 800, 1.2 is 1200. Arithmetic is *)
(*    exact decimal arithmetic; toFixed(2) rounds half away from zero;     *)
(*  - a cell value is a record [t, v, s]: t is the JavaScript type tag,    *)
(*    v the number, s the string;                                          *)
(*  - a raw row (Record<string, unknown>) is the sequence of its           *)
(*    <<key, value>> entries in Object.keys order.                         *)
(***************************************************************************)
EXTENDS Integers, Sequences, FiniteSets, TLC

\* ------------------------------------------------------------------ bounds
MaxRows == 2

MaxPairRows == 1

MaxSheetRows == 2

MaxUploads == 3

\* ------------------------------------------------------- number encoding
\* One cent, the unit toFixed(2) rounds to, in units of the encoding.
Cent == 10

Scale == 100 * Cent

Abs(n) == IF n < 0 THEN -n ELSE n

RECURSIVE Pow10(_)
Pow10(e) == IF e <= 0 THEN 1 ELSE 10 * Pow10(e - 1)

\* Number.prototype.toFixed(2) followed by Number.parseFloat: the nearest
\* multiple of one cent, a tie going away from zero.
roundMagnitude(m) == ((m + (Cent \div 2)) \div Cent) * Cent

toFixed2(x) == IF x < 0 THEN -roundMagnitude(-x) ELSE roundMagnitude(x)

\* The product of two fixed-point numbers, kept at ten times the precision
\* so that the rounding to cents sees the digit it rounds on.
mulExact(a, b) == (a * b) \div (Scale \div 10)

roundProduct(p10) ==
  LET m == Abs(p10)
      r == ((m + (10 * Cent) \div 2) \div (10 * Cent)) * Cent
  IN IF p10 < 0 THEN -r ELSE r

\* ------------------------------------------------------------- characters
Digits == <<"0", "1", "2", "3", "4", "5", "6", "7", "8", "9">>

UpperChars == <<"A", "B", "C", "D", "E", "F", "G", "H", "I", "J", "K", "L", "M",
                "N", "O", "P", "Q", "R", "S", "T", "U", "V", "W", "X", "Y", "Z">>

LowerChars == <<"a", "b", "c", "d", "e", "f", "g", "h", "i", "j", "k", "l", "m",
                "n", "o", "p", "q", "r", "s", "t", "u", "v", "w", "x", "y", "z">>

isWhitespace(c) == c \in {" ", "\t", "\n", "\r"}

isDigit(c) == \E d \in 1..10 : Digits[d] = c

digitValue(c) == (CHOOSE d \in 1..10 : Digits[d] = c) - 1

toLowerChar(c) ==
  IF \E k \in 1..26 : UpperChars[k] = c
  THEN LowerChars[CHOOSE k \in 1..26 : UpperChars[k] = c]
  ELSE c

\* String.prototype.toLowerCase
toLowerCase(s) == [k \in 1..Len(s) |-> toLowerChar(s[k])]

\* String.prototype.replace(/\s+/g, '')
stripWhitespace(s) == SelectSeq(s, LAMBDA c : ~isWhitespace(c))

\* String.prototype.replace(/,/g, '')
stripCommas(s) == SelectSeq(s, LAMBDA c : c # ",")

RECURSIVE trimStart(_)
trimStart(s) ==
  IF s # <<>> /\ isWhitespace(Head(s)) THEN trimStart(Tail(s)) ELSE s

RECURSIVE trimEnd(_)
trimEnd(s) ==
  IF s # <<>> /\ isWhitespace(s[Len(s)])
  THEN trimEnd(SubSeq(s, 1, Len(s) - 1))
  ELSE s

\* String.prototype.trim
trim(s) == trimEnd(trimStart(s))

\* ------------------------------------------------------------ cell values
Undefined == [t |-> "undefined", v |-> 0, s |-> <<>>]

Null == [t |-> "null", v |-> 0, s |-> <<>>]

Num(n) == [t |-> "number", v |-> n, s |-> <<>>]

\* NaN, Infinity and -Infinity: the numbers Number.isFinite rejects.
NonFinite == [t |-> "nonfinite", v |-> 0, s |-> <<>>]

Str(chars) == [t |-> "string", v |-> 0, s |-> chars]

Bool(b) == [t |-> "boolean", v |-> IF b THEN 1 ELSE 0, s |-> <<>>]

isNullish(value) == value.t \in {"undefined", "null"}

\* a ?? b
nullish(a, b) == IF isNullish(a) THEN b ELSE a

\* ------------------------------------------------------------- parseFloat
RECURSIVE digitPrefix(_)
digitPrefix(s) ==
  IF s # <<>> /\ isDigit(Head(s)) THEN <<Head(s)>> \o digitPrefix(Tail(s)) ELSE <<>>

RECURSIVE digitsToInt(_)
digitsToInt(ds) ==
  IF ds = <<>> THEN 0
  ELSE 10 * digitsToInt(SubSeq(ds, 1, Len(ds) - 1)) + digitValue(ds[Len(ds)])

dropN(s, n) == SubSeq(s, n + 1, Len(s))

startsWith(s, p) == Len(s) >= Len(p) /\ SubSeq(s, 1, Len(p)) = p

\* The fraction digits as a count of 1/Scale units (digits past the third
\* are below the precision of the encoding).
fractionUnits(fs) ==
  LET f3 == [k \in 1..3 |-> IF k <= Len(fs) THEN fs[k] ELSE "0"]
  IN digitsToInt(f3)

\* The optional exponent part [eE][+-]?digits of a StrDecimalLiteral: the
\* signed exponent when the part is well formed, 0 otherwise.
exponentOf(rest) ==
  IF rest # <<>> /\ Head(rest) \in {"e", "E"}
  THEN LET r1 == Tail(rest)
           neg == r1 # <<>> /\ Head(r1) = "-"
           r2 == IF r1 # <<>> /\ Head(r1) \in {"+", "-"} THEN Tail(r1) ELSE r1
           ds == digitPrefix(r2)
       IN IF ds = <<>> THEN 0 ELSE IF neg THEN -digitsToInt(ds) ELSE digitsToInt(ds)
  ELSE 0

applyExponent(m, e) == IF e >= 0 THEN m * Pow10(e) ELSE m \div Pow10(-e)

\* Number.parseFloat on an already trimmed string: the longest prefix that
\* is a StrDecimalLiteral; NaN when there is none.
parseFloat(str) ==
  LET s0 == trimStart(str)
      neg == s0 # <<>> /\ Head(s0) = "-"
      s1 == IF s0 # <<>> /\ Head(s0) \in {"+", "-"} THEN Tail(s0) ELSE s0
      ints == digitPrefix(s1)
      s2 == dropN(s1, Len(ints))
      hasDot == s2 # <<>> /\ Head(s2) = "."
      fracs == IF hasDot THEN digitPrefix(Tail(s2)) ELSE <<>>
      s3 == IF hasDot /\ (ints # <<>> \/ fracs # <<>>) THEN dropN(s2, 1 + Len(fracs)) ELSE s2
      mant == digitsToInt(ints) * Scale + fractionUnits(fracs)
      mag == applyExponent(mant, exponentOf(s3))
  IN IF startsWith(s1, <<"I", "n", "f", "i", "n", "i", "t", "y">>) THEN NonFinite
     ELSE IF ints = <<>> /\ fracs = <<>> THEN NonFinite
     ELSE Num(IF neg THEN -mag ELSE mag)

\* ------------------------------------------------------------ parseNumber
\* number | null: Null stands for the null result.
parseNumber(value) ==
  IF isNullish(value) THEN Null
  ELSE IF value.t = "number" THEN value
  ELSE IF value.t = "string"
       THEN LET trimmed == trim(value.s)
            IN IF trimmed = <<>> THEN Null
               ELSE LET parsed == parseFloat(stripCommas(trimmed))
                    IN IF parsed.t = "number" THEN parsed ELSE Null
  ELSE Null

\* ---------------------------------------------------------- Number -> String
RECURSIVE intToDigits(_)
intToDigits(n) ==
  IF n < 10 THEN <<Digits[n + 1]>> ELSE intToDigits(n \div 10) \o <<Digits[(n % 10) + 1]>>

RECURSIVE dropTrailingZeros(_)
dropTrailingZeros(ds) ==
  IF ds # <<>> /\ ds[Len(ds)] = "0" THEN dropTrailingZeros(SubSeq(ds, 1, Len(ds) - 1)) ELSE ds

\* String(number) for a finite number of the encoding.
numberToString(n) ==
  LET m == Abs(n)
      frac == m % Scale
      fd == <<Digits[(frac \div 100) + 1], Digits[((frac \div 10) % 10) + 1], Digits[(frac % 10) + 1]>>
      fs == dropTrailingZeros(fd)
  IN (IF n < 0 THEN <<"-">> ELSE <<>>) \o intToDigits(m \div Scale)
       \o (IF fs = <<>> THEN <<>> ELSE <<".">> \o fs)

\* `${value}` for the value types a cell can hold.
templateString(value) ==
  CASE value.t = "string" -> value.s
    [] value.t = "number" -> numberToString(value.v)
    [] value.t = "nonfinite" -> <<"N", "a", "N">>
    [] value.t = "boolean" -> IF value.v = 1 THEN <<"t", "r", "u", "e">> ELSE <<"f", "a", "l", "s", "e">>
    [] OTHER -> <<>>

\* ---------------------------------------------------------------- raw rows
\* Object.keys(row)
objectKeys(row) == [k \in 1..Len(row) |-> row[k][1]]

hasKey(row, key) == \E k \in 1..Len(row) : row[k][1] = key

\* row[key]: undefined for a key the object does not have.
rowGet(row, key) ==
  IF hasKey(row, key) THEN row[CHOOSE k \in 1..Len(row) : row[k][1] = key][2] ELSE Undefined

contains(seq, e) == \E k \in 1..Len(seq) : seq[k] = e

\* ------------------------------------------------------------- the headers
cModel == <<"m", "o", "d", "e", "l">>

DEFAULT_PRICE == 800

FIXED_COLUMNS ==
  { cModel,
    <<"q", "t", "y">>,
    <<"p", "r", "i", "c", "e">>,
    <<"a", "m", "o", "u", "n", "t", ",", "u", "s", "d">>,
    <<"a", "m", "o", "u", "n", "t">>,
    <<"a", "m", "o", "u", "n", "t", "u", "s", "d">> }

normalizeHeader(header) == toLowerCase(stripWhitespace(header))

\* headers.add(key) on an insertion-ordered Set, guarded by `if (key)`.
\* Faulty variant: a new header is put in front, so the order is last-seen first.
addHeader_front(headers, key) ==
  IF key = <<>> \/ contains(headers, key) THEN headers ELSE <<key>> \o headers

addHeader(headers, key) ==
  IF key = <<>> \/ contains(headers, key) THEN headers ELSE Append(headers, key)

RECURSIVE addKeys(_, _)
addKeys(headers, keys) ==
  IF keys = <<>> THEN headers ELSE addKeys(addHeader(headers, Head(keys)), Tail(keys))

RECURSIVE collectHeaders(_, _)
collectHeaders(headers, rs) ==
  IF rs = <<>> THEN headers
  ELSE collectHeaders(addKeys(headers, objectKeys(Head(rs))), Tail(rs))

extractHeaders(rs) == collectHeaders(<<>>, rs)

\* Faulty variant: the header is looked up as written, not normalized.
isColorColumn_raw(header) == header # <<>> /\ header \notin FIXED_COLUMNS

isColorColumn(header) == header # <<>> /\ normalizeHeader(header) \notin FIXED_COLUMNS

identifyColorColumns(hs) == SelectSeq(hs, isColorColumn)

\* Faulty variant: any fixed column is taken for the model column.
ensureModelColumn_anyFixed(hs) ==
  \E k \in 1..Len(hs) : normalizeHeader(hs[k]) \in FIXED_COLUMNS

\* TRUE when ensureModelColumn returns, FALSE when it throws.
ensureModelColumn(hs) == \E k \in 1..Len(hs) : normalizeHeader(hs[k]) = cModel

\* options?.defaultPrice ?? DEFAULT_PRICE
resolveDefaultPrice(opts) ==
  IF opts.present /\ ~isNullish(opts.defaultPrice) THEN opts.defaultPrice.v ELSE DEFAULT_PRICE

\* ---------------------------------------------------------------- warnings
\* A warning is its message template: the row number it names (0: none),
\* the column it names (<<>>: none) and the fixed text.
priceWarning ==
  [row |-> 0, column |-> <<>>, text |-> "Price column missing or invalid; fallback to default price."]

\* Faulty variant: the row number leaves out the header row.
missingModelWarning_noHeaderRow(index) ==
  [row |-> index + 1, column |-> <<>>, text |-> "Missing model name, skipping."]

missingModelWarning(index) ==
  [row |-> index + 2, column |-> <<>>, text |-> "Missing model name, skipping."]

invalidQuantityWarning(index, colorColumn) ==
  [row |-> index + 2, column |-> colorColumn, text |-> "Invalid quantity, ignored."]

\* ------------------------------------------------------------ the row body
cPrice == <<"P", "r", "i", "c", "e">>

cprice == <<"p", "r", "i", "c", "e">>

cModelKey == <<"M", "o", "d", "e", "l">>

\* row.Model ?? row.model ?? '' turned into a trimmed string.
resolveModel(row) ==
  LET modelValue == nullish(nullish(rowGet(row, cModelKey), rowGet(row, cModel)), Str(<<>>))
  IN IF modelValue.t = "string" THEN trim(modelValue.s) ELSE trim(templateString(modelValue))

\* Faulty variant: the test `price < 0`, which accepts a price of zero.
priceFallsBack_lt(price) == price = Null \/ price.v < 0

priceFallsBack(price) == price = Null \/ price.v <= 0

\* getPrice: the price and the warnings array after the call.
getPrice(row, defaultPrice, ws) ==
  LET price == parseNumber(nullish(rowGet(row, cPrice), rowGet(row, cprice)))
  IN IF priceFallsBack(price)
     THEN [price |-> defaultPrice, warnings |-> Append(ws, priceWarning)]
     ELSE [price |-> price.v, warnings |-> ws]

\* Faulty variant: the test `qty < 0`, which lets a zero quantity through.
qtyNotPositive_lt(qty) == qty.v < 0

qtyNotPositive(qty) == qty.v <= 0

\* Number.parseFloat((qty * price).toFixed(2))
amountOf(qty, price) == roundProduct(mulExact(qty, price))

quotationRow(m, colorColumn, qty, price, amount) ==
  [modelNo |-> m, categoryName |-> m, color |-> trim(colorColumn),
   qty |-> qty, priceUSD |-> price, amountUSD |-> amount]

addQty(totalQty, qty) == totalQty + qty

\* Faulty variant: `totalAmount = amount`, an assignment in place of `+=`.
addAmount_assign(totalAmount, amount) == amount

addAmount(totalAmount, amount) == totalAmount + amount

\* Faulty variant: the emptiness test is lost.
emptyResult_never(resultRows) == Len(resultRows) < 0

emptyResult(resultRows) == Len(resultRows) = 0

NoOutcome == [kind |-> "none", code |-> "", message |-> "", rows |-> <<>>,
              totals |-> [totalQty |-> 0, totalAmount |-> 0], warnings |-> <<>>]

\* throw new TransformError(message, code)
TransformError(message, code) ==
  [NoOutcome EXCEPT !.kind = "error", !.code = code, !.message = message]

\* The returned TransformResult.
makeResult(resultRows, totalQty, totalAmount, ws) ==
  [kind |-> "result", code |-> "", message |-> "", rows |-> resultRows,
   totals |-> [totalQty |-> totalQty, totalAmount |-> toFixed2(totalAmount)],
   warnings |-> ws]

\* ------------------------------------------------------------------ inputs
hModel == cModelKey

hmodel == cModel

hMODEL == <<"M", "O", "D", "E", "L", " ">>

hPrice == cPrice

hprice == cprice

hQty == <<"Q", "t", "y">>

hAmountUsd == <<"A", "m", "o", "u", "n", "t", ",", " ", "u", "s", "d">>

hBlack == <<"1", "8", "#", "B", "l", "a", "c", "k">>

hRed == <<" ", "R", "e", "d", " ">>

\* { Model: 'IP 12', '18#Black': 50, ' Red ': '20', Qty: 230, Price: 0.8, 'Amount, usd': 184 }
RowFull ==
  << <<hModel, Str(<<"I", "P", " ", "1", "2">>)>>, <<hBlack, Num(50000)>>,
     <<hRed, Str(<<"2", "0">>)>>, <<hQty, Num(230000)>>, <<hPrice, Num(800)>>,
     <<hAmountUsd, Num(184000)>> >>

\* { Model: ' X ', ' Red ': 30, '18#Black': 0, Price: '1.2' }
RowRedFirst ==
  << <<hModel, Str(<<" ", "X", " ">>)>>, <<hRed, Num(30000)>>, <<hBlack, Num(0)>>,
     <<hPrice, Str(<<"1", ".", "2">>)>> >>

\* { Model: 'Y', '18#Black': 'abc' }
RowBadCell == << <<hModel, Str(<<"Y">>)>>, <<hBlack, Str(<<"a", "b", "c">>)>> >>

\* { Model: '  ', '18#Black': 5, Price: 2 }
RowBlankModel ==
  << <<hModel, Str(<<" ", " ">>)>>, <<hBlack, Num(5000)>>, <<hPrice, Num(2000)>> >>

\* { model: 7, '18#Black': '1,200.5', Price: -1 }
RowNumericModel ==
  << <<hmodel, Num(7000)>>, <<hBlack, Str(<<"1", ",", "2", "0", "0", ".", "5">>)>>,
     <<hPrice, Num(-1000)>> >>

\* { '18#Black': 10, Qty: 10 }
RowNoModel == << <<hBlack, Num(10000)>>, <<hQty, Num(10000)>> >>

\* {}
RowNoKeys == << >>

\* { '': 3 }
RowEmptyKey == << <<<<>>, Num(3000)>> >>

\* { 'MODEL ': 'Z', ' Red ': 1, price: '0.555' }
RowUpperModel ==
  << <<hMODEL, Str(<<"Z">>)>>, <<hRed, Num(1000)>>,
     <<hprice, Str(<<"0", ".", "5", "5", "5">>)>> >>

\* { Model: 'M', Qty: 5, Price: 1 }
RowNoVariant == << <<hModel, Str(<<"M">>)>>, <<hQty, Num(5000)>>, <<hPrice, Num(1000)>> >>

\* { Model: 'N', '18#Black': -3, ' Red ': NaN, Price: 0 }
RowNegative ==
  << <<hModel, Str(<<"N">>)>>, <<hBlack, Num(-3000)>>, <<hRed, NonFinite>>,
     <<hPrice, Num(0)>> >>

\* { Model: '', model: 'W', '18#Black': '2e1', Price: '', price: 3 }
RowShadowed ==
  << <<hModel, Str(<<>>)>>, <<hmodel, Str(<<"W">>)>>, <<hBlack, Str(<<"2", "e", "1">>)>>,
     <<hPrice, Str(<<>>)>>, <<hprice, Num(3000)>> >>

\* { Model: 'Q', ' Red ': 1, '18#Black': '3pcs', price: '0.555' }
RowHalfCent ==
  << <<hModel, Str(<<"Q">>)>>, <<hRed, Num(1000)>>,
     <<hBlack, Str(<<"3", "p", "c", "s">>)>>,
     <<hprice, Str(<<"0", ".", "5", "5", "5">>)>> >>

RowPool ==
  { RowFull, RowRedFirst, RowBadCell, RowBlankModel, RowNumericModel, RowNoModel,
    RowNoKeys, RowEmptyKey, RowUpperModel, RowNoVariant, RowNegative, RowShadowed,
    RowHalfCent }

SeqsUpTo(S, n) == UNION { [1..k -> S] : k \in 0..n }

Inputs == SeqsUpTo(RowPool, MaxRows)

PairRowPool == { RowFull, RowRedFirst, RowNumericModel, RowNoModel }

PairInputs == SeqsUpTo(PairRowPool, MaxPairRows)

NoOptions == [present |-> FALSE, defaultPrice |-> Undefined]

WithDefaultPrice(value) == [present |-> TRUE, defaultPrice |-> value]

\* undefined, {}, { defaultPrice: 0.9 }, { defaultPrice: 0 }, { defaultPrice: -0.5 }
OptionsPool ==
  { NoOptions, WithDefaultPrice(Undefined), WithDefaultPrice(Num(900)),
    WithDefaultPrice(Num(0)), WithDefaultPrice(Num(-500)) }

\* ------------------------------------------------------ workbook helpers
\* A worksheet is its header row and its body rows of cell texts; a
\* workbook is its SheetNames and, in the same order, its Sheets.
NotThrown == [raised |-> FALSE, isTransformError |-> FALSE, code |-> "", message |-> ""]

\* A TransformError as a caught value.
Caught(message, code) ==
  [raised |-> TRUE, isTransformError |-> TRUE, code |-> code, message |-> message]

\* Any other thrown value.
RawError == [raised |-> TRUE, isTransformError |-> FALSE, code |-> "", message |-> "raw"]

NoWorkbook == [SheetNames |-> <<>>, Sheets |-> <<>>]

\* workbookFromBuffer: read() fails on bytes that are no workbook, and the
\* failure is rethrown as PARSE_ERROR.
workbookFromBuffer(file) ==
  IF file.decodable
  THEN [error |-> NotThrown, value |-> file.workbook]
  ELSE [error |-> Caught("Failed to parse workbook", "PARSE_ERROR"), value |-> NoWorkbook]

isBlankRow(cells) == \A k \in 1..Len(cells) : cells[k] = <<>>

\* utils.sheet_to_json(worksheet, { defval: '', raw: false, blankrows: false }):
\* one object per non-blank body row, every header present, every value
\* the cell's text.
sheetToJson(sheet) ==
  LET kept == SelectSeq(sheet.body, LAMBDA cells : ~isBlankRow(cells))
  IN [r \in 1..Len(kept) |->
        [k \in 1..Len(sheet.headers) |->
           <<sheet.headers[k], Str(IF k <= Len(kept[r]) THEN kept[r][k] ELSE <<>>)>>]]

rowsFromWorkbook(wb) ==
  IF Len(wb.SheetNames) = 0
  THEN [error |-> Caught("Workbook does not contain any sheets.", "PARSE_ERROR"),
        value |-> <<>>]
  ELSE LET json == sheetToJson(wb.Sheets[1])
       IN IF Len(json) = 0
          THEN [error |-> Caught("Worksheet is empty.", "PARSE_ERROR"), value |-> <<>>]
          ELSE [error |-> NotThrown, value |-> json]

cTotal == <<"t", "o", "t", "a", "l", ":">>

sheetRowOf(row) ==
  ("Model No." :> Str(row.modelNo)) @@ ("Category / Name" :> Str(row.categoryName))
    @@ ("color" :> Str(row.color)) @@ ("QTY" :> Num(row.qty))
    @@ ("PRICE (USD)" :> Num(row.priceUSD)) @@ ("Amount (USD)" :> Num(row.amountUSD))

\* Faulty variant: the two totals are written to each other's column.
totalRowOf_swapped(totals) ==
  ("Model No." :> Str(<<>>)) @@ ("Category / Name" :> Str(<<>>))
    @@ ("color" :> Str(cTotal)) @@ ("QTY" :> Num(totals.totalAmount))
    @@ ("PRICE (USD)" :> Str(<<>>)) @@ ("Amount (USD)" :> Num(totals.totalQty))

totalRowOf(totals) ==
  ("Model No." :> Str(<<>>)) @@ ("Category / Name" :> Str(<<>>))
    @@ ("color" :> Str(cTotal)) @@ ("QTY" :> Num(totals.totalQty))
    @@ ("PRICE (USD)" :> Str(<<>>)) @@ ("Amount (USD)" :> Num(totals.totalAmount))

\* createWorkbookFromQuotation: a workbook with the one sheet 'Quotation',
\* kept as the array of objects given to json_to_sheet.
createWorkbookFromQuotation(data) ==
  LET sheetRows == [k \in 1..Len(data.rows) |-> sheetRowOf(data.rows[k])]
                     \o <<totalRowOf(data.totals)>>
  IN [SheetNames |-> <<"Quotation">>, Sheets |-> <<sheetRows>>]

NoBuffer == [written |-> FALSE, bytesOf |-> NoWorkbook]

\* serializeWorkbook: write() either yields the bytes or fails, and the
\* failure is rethrown as PARSE_ERROR.
serializeWorkbook(wb, writeFails) ==
  IF writeFails
  THEN [error |-> Caught("Failed to serialize workbook", "PARSE_ERROR"), value |-> NoBuffer]
  ELSE [error |-> NotThrown, value |-> [written |-> TRUE, bytesOf |-> wb]]

\* ------------------------------------------------------------- the route
ROUTE_DEFAULT_PRICE == 800

\* Faulty variant: EMPTY_RESULT is answered like INVALID_TEMPLATE.
statusFor_merged(code) ==
  IF code \in {"INVALID_TEMPLATE", "EMPTY_RESULT"} THEN 400 ELSE 500

\* error.code === 'INVALID_TEMPLATE' ? 400 : error.code === 'EMPTY_RESULT' ? 422 : 500
statusFor(code) ==
  IF code = "INVALID_TEMPLATE" THEN 400 ELSE IF code = "EMPTY_RESULT" THEN 422 ELSE 500

NoData ==
  [rows |-> <<>>, totals |-> [totalQty |-> 0, totalAmount |-> 0], warnings |-> <<>>,
   metadata |-> [sourceName |-> "", defaultPrice |-> 0, rowCount |-> 0],
   excelBase64 |-> NoBuffer]

\* NextResponse.json({ error: { code, message } }, { status })
errorResponse(code, message, status) ==
  [status |-> status, ok |-> FALSE, error |-> [code |-> code, message |-> message],
   data |-> NoData]

\* NextResponse.json({ rows, totals, warnings, metadata, excelBase64 })
successResponse(result, name, buffer) ==
  [status |-> 200, ok |-> TRUE, error |-> [code |-> "", message |-> ""],
   data |-> [rows |-> result.rows, totals |-> result.totals, warnings |-> result.warnings,
             metadata |-> [sourceName |-> name, defaultPrice |-> ROUTE_DEFAULT_PRICE,
                           rowCount |-> Len(result.rows)],
             excelBase64 |-> buffer]]

\* The response of the catch clause.
catchResponse(error) ==
  IF error.isTransformError
  THEN errorResponse(error.code, error.message, statusFor(error.code))
  ELSE errorResponse("PARSE_ERROR",
                     "Unexpected server error occurred while processing file.", 500)

\* ------------------------------------------------------------- requests
LayoutMatrix == <<hModel, hBlack, hRed, hPrice>>

LayoutNoModel == <<hBlack, hRed>>

LayoutNoVariant == <<hModel, hQty, hPrice>>

Layouts == { LayoutMatrix, LayoutNoModel, LayoutNoVariant }

\* A | 50 | (blank) | 0.8
TextRowA == << <<"A">>, <<"5", "0">>, <<>>, <<"0", ".", "8">> >>

\* B | 0 | 0 | (blank)
TextRowZero == << <<"B">>, <<"0">>, <<"0">>, <<>> >>

\* a row of blank cells
TextRowBlank == << <<>>, <<>>, <<>>, <<>> >>

\* C | 5 | 2 | 1.2
TextRowC == << <<"C">>, <<"5">>, <<"2">>, <<"1", ".", "2">> >>

TextRows == { TextRowA, TextRowZero, TextRowBlank, TextRowC }

SheetPool ==
  { [headers |-> l, body |-> [r \in 1..Len(b) |-> SubSeq(b[r], 1, Len(l))]] :
      l \in Layouts, b \in SeqsUpTo(TextRows, MaxSheetRows) }

NoFile ==
  [isFile |-> FALSE, name |-> "", readable |-> FALSE, decodable |-> FALSE,
   workbook |-> NoWorkbook]

UploadedFile(readable, decodable, wb) ==
  [isFile |-> TRUE, name |-> "matrix.xlsx", readable |-> readable,
   decodable |-> decodable, workbook |-> wb]

NoRequest == [formData |-> "none", file |-> NoFile, fault |-> "none"]

Faults == {"none", "build", "serialize"}

Requests ==
  { [formData |-> "rejects", file |-> NoFile, fault |-> "none"],
    [formData |-> "ok", file |-> NoFile, fault |-> "none"],
    [formData |-> "ok", file |-> UploadedFile(FALSE, FALSE, NoWorkbook), fault |-> "none"],
    [formData |-> "ok", file |-> UploadedFile(TRUE, FALSE, NoWorkbook), fault |-> "none"],
    [formData |-> "ok", file |-> UploadedFile(TRUE, TRUE, NoWorkbook), fault |-> "none"] }
  \cup
  { [formData |-> "ok",
     file |-> UploadedFile(TRUE, TRUE, [SheetNames |-> <<"Sheet1">>, Sheets |-> <<sh>>]),
     fault |-> f] : sh \in SheetPool, f \in Faults }

\* ---------------------------------------------------------------- the page
\* null, and a value that is not null.
NullValue == [isNull |-> TRUE]

Some(value) == [isNull |-> FALSE, value |-> value]

ResultA ==
  makeResult(<< quotationRow(<<"A">>, hBlack, 50000, 800, 40000) >>, 50000, 40000, <<>>)

ResultB ==
  makeResult(<< quotationRow(<<"B">>, hBlack, 5000, 900, 4500),
                quotationRow(<<"B">>, hRed, 2000, 900, 1800) >>,
             7000, 6300, << priceWarning >>)

BufferOf(result) ==
  [written |-> TRUE, bytesOf |-> createWorkbookFromQuotation(result)]

FilePool == { "a.xlsx", "b.xlsx", "zero.xlsx" }

\* What POST /api/convert answers for each file.
ServerReply(file) ==
  CASE file = "a.xlsx" -> successResponse(ResultA, file, BufferOf(ResultA))
    [] file = "b.xlsx" -> successResponse(ResultB, file, BufferOf(ResultB))
    [] OTHER -> errorResponse("EMPTY_RESULT", "No valid rows produced from worksheet.", 422)

\* fetch or response.json() rejects: the request got no JSON answer.
NetworkFailure == errorResponse("", "Failed to fetch", 0)

\* ------------------------------------------------------------------- state
Procs == {1, 2}

VARIABLES
  pc,            \* where each invocation of transformMatrixRows stands
  rows,          \* its argument rows
  options,       \* its argument options
  defaultPrice,  \* its local defaultPrice
  headers,       \* its local headers
  colorColumns,  \* its local colorColumns
  resultRows,    \* its local resultRows
  warnings,      \* its local warnings
  totalQty,      \* its local totalQty
  totalAmount,   \* its local totalAmount
  index,         \* the index of the rows.forEach callback
  col,           \* the position of the colorColumns.forEach callback
  model,         \* the callback's local model
  price,         \* the callback's local price
  outcome,       \* what the invocation returned or threw
  hpc,              \* where the POST handler stands
  request,          \* the request it serves
  workbook,         \* its local workbook
  jsonRows,         \* its local rows
  transformResult,  \* its local transformResult
  outWorkbook,      \* its local outWorkbook
  excelArrayBuffer, \* its local excelArrayBuffer
  thrown,           \* the error its catch clause received
  responses,        \* the responses it has produced
  pageStatus,        \* the page's state status
  pageRows,      \* the page's state rows
  pageTotals,        \* the page's state totals
  pageWarnings,  \* the page's state warnings
  pageError,         \* the page's state error
  excelBase64,   \* the page's state excelBase64
  sourceName,    \* the page's state sourceName
  inflight,      \* the handleFileChange calls waiting at their fetch
  uploads        \* how many files have been selected

args == <<rows, options>>

locals == <<defaultPrice, headers, colorColumns, resultRows, warnings, totalQty,
            totalAmount, index, col, model, price>>

page == <<pageStatus, pageRows, pageTotals, pageWarnings, pageError, excelBase64, sourceName,
          inflight, uploads>>

handler == <<hpc, request, workbook, jsonRows, transformResult, outWorkbook,
             excelArrayBuffer, thrown, responses>>

vars == <<pc, rows, options, defaultPrice, headers, colorColumns, resultRows, warnings,
          totalQty, totalAmount, index, col, model, price, outcome, hpc, request,
          workbook, jsonRows, transformResult, outWorkbook, excelArrayBuffer, thrown,
          responses, pageStatus, pageRows, pageTotals, pageWarnings, pageError, excelBase64,
          sourceName, inflight, uploads>>

InitLocals ==
  /\ defaultPrice = [i \in Procs |-> 0]
  /\ headers = [i \in Procs |-> <<>>]
  /\ colorColumns = [i \in Procs |-> <<>>]
  /\ resultRows = [i \in Procs |-> <<>>]
  /\ warnings = [i \in Procs |-> <<>>]
  /\ totalQty = [i \in Procs |-> 0]
  /\ totalAmount = [i \in Procs |-> 0]
  /\ index = [i \in Procs |-> 0]
  /\ col = [i \in Procs |-> 0]
  /\ model = [i \in Procs |-> <<>>]
  /\ price = [i \in Procs |-> 0]
  /\ outcome = [i \in Procs |-> NoOutcome]

\* The useState initial values; no upload has been made.
InitPage ==
  /\ pageStatus = "idle"
  /\ pageRows = <<>>
  /\ pageTotals = NullValue
  /\ pageWarnings = <<>>
  /\ pageError = NullValue
  /\ excelBase64 = NullValue
  /\ sourceName = ""
  /\ inflight = {}
  /\ uploads = 0

InitHandlerLocals ==
  /\ workbook = NoWorkbook
  /\ jsonRows = <<>>
  /\ transformResult = NoOutcome
  /\ outWorkbook = NoWorkbook
  /\ excelArrayBuffer = NoBuffer
  /\ thrown = NotThrown
  /\ responses = <<>>

\* One direct call transformMatrixRows(rows, options).
Init ==
  /\ \E rs \in Inputs, o \in OptionsPool :
       /\ rows = [i \in Procs |-> IF i = 1 THEN rs ELSE <<>>]
       /\ options = [i \in Procs |-> IF i = 1 THEN o ELSE NoOptions]
  /\ pc = [i \in Procs |-> IF i = 1 THEN "start" ELSE "idle"]
  /\ InitLocals
  /\ hpc = "none"
  /\ request = NoRequest
  /\ InitHandlerLocals
  /\ InitPage

\* -------------------------------------------------- transformMatrixRows
throw(i, message, code) ==
  /\ outcome' = [outcome EXCEPT ![i] = TransformError(message, code)]
  /\ pc' = [pc EXCEPT ![i] = "done"]

\* Faulty variant: warnings is one module-level array, so a call starts from what
\* the other call has pushed.
freshWarnings_shared(i) == warnings[3 - i]

\* const warnings: string[] = [] -- a new array for invocation i.
freshWarnings(i) == <<>>

\* Lines 111-129: the header checks and the fresh accumulators.
Enter(i) ==
  /\ pc[i] = "start"
  /\ LET hs == extractHeaders(rows[i])
         cs == identifyColorColumns(hs)
     IN /\ defaultPrice' = [defaultPrice EXCEPT ![i] = resolveDefaultPrice(options[i])]
        /\ headers' = [headers EXCEPT ![i] = hs]
        /\ IF Len(hs) = 0
           THEN throw(i, "Could not detect headers in worksheet.", "PARSE_ERROR") /\ UNCHANGED colorColumns
           ELSE IF ~ensureModelColumn(hs)
           THEN throw(i, "Missing required column \"Model\".", "INVALID_TEMPLATE") /\ UNCHANGED colorColumns
           ELSE /\ colorColumns' = [colorColumns EXCEPT ![i] = cs]
                /\ IF Len(cs) = 0
                   THEN throw(i, "No color columns detected in worksheet.", "INVALID_TEMPLATE")
                   ELSE pc' = [pc EXCEPT ![i] = "row"] /\ UNCHANGED outcome
  /\ resultRows' = [resultRows EXCEPT ![i] = <<>>]
  /\ warnings' = [warnings EXCEPT ![i] = freshWarnings(i)]
  /\ totalQty' = [totalQty EXCEPT ![i] = 0]
  /\ totalAmount' = [totalAmount EXCEPT ![i] = 0]
  /\ index' = [index EXCEPT ![i] = 0]
  /\ UNCHANGED <<args, col, model, price, handler, page>>

\* Lines 131-140: the rows.forEach callback up to the inner loop.
RowStep(i) ==
  /\ pc[i] = "row"
  /\ index[i] < Len(rows[i])
  /\ LET row == rows[i][index[i] + 1]
         m == resolveModel(row)
         p == getPrice(row, defaultPrice[i], warnings[i])
     IN /\ model' = [model EXCEPT ![i] = m]
        /\ IF m = <<>>
           THEN /\ warnings' = [warnings EXCEPT ![i] = Append(@, missingModelWarning(index[i]))]
                /\ index' = [index EXCEPT ![i] = @ + 1]
                /\ UNCHANGED <<pc, price, col>>
           ELSE /\ price' = [price EXCEPT ![i] = p.price]
                /\ warnings' = [warnings EXCEPT ![i] = p.warnings]
                /\ col' = [col EXCEPT ![i] = 0]
                /\ pc' = [pc EXCEPT ![i] = "cell"]
                /\ UNCHANGED index
  /\ UNCHANGED <<args, defaultPrice, headers, colorColumns, resultRows, totalQty,
                 totalAmount, outcome, handler, page>>

\* Lines 142-168: one call of the colorColumns.forEach callback.
CellStep(i) ==
  /\ pc[i] = "cell"
  /\ LET row == rows[i][index[i] + 1]
         colorColumn == colorColumns[i][col[i] + 1]
         qty == parseNumber(rowGet(row, colorColumn))
         amount == amountOf(qty.v, price[i])
     IN IF qty = Null
        THEN /\ warnings' = [warnings EXCEPT ![i] =
                               Append(@, invalidQuantityWarning(index[i], colorColumn))]
             /\ UNCHANGED <<resultRows, totalQty, totalAmount>>
        ELSE IF qtyNotPositive(qty)
        THEN UNCHANGED <<warnings, resultRows, totalQty, totalAmount>>
        ELSE /\ resultRows' = [resultRows EXCEPT ![i] =
                    Append(@, quotationRow(model[i], colorColumn, qty.v, price[i], amount))]
             /\ totalQty' = [totalQty EXCEPT ![i] = addQty(@, qty.v)]
             /\ totalAmount' = [totalAmount EXCEPT ![i] = addAmount(@, amount)]
             /\ UNCHANGED warnings
  /\ IF col[i] + 1 < Len(colorColumns[i])
     THEN col' = [col EXCEPT ![i] = @ + 1] /\ UNCHANGED <<pc, index>>
     ELSE /\ pc' = [pc EXCEPT ![i] = "row"]
          /\ index' = [index EXCEPT ![i] = @ + 1]
          /\ UNCHANGED col
  /\ UNCHANGED <<args, defaultPrice, headers, colorColumns, model, price, outcome,
                 handler, page>>

\* Lines 171-184: EMPTY_RESULT or the result.
Return(i) ==
  /\ pc[i] = "row"
  /\ index[i] = Len(rows[i])
  /\ IF emptyResult(resultRows[i])
     THEN throw(i, "No valid rows produced from worksheet.", "EMPTY_RESULT")
     ELSE /\ outcome' = [outcome EXCEPT ![i] =
                 makeResult(resultRows[i], totalQty[i], totalAmount[i], warnings[i])]
          /\ pc' = [pc EXCEPT ![i] = "done"]
  /\ UNCHANGED <<args, locals, handler, page>>

transformMatrixRows(i) == Enter(i) \/ RowStep(i) \/ CellStep(i) \/ Return(i)

Next == transformMatrixRows(1)

Spec == Init /\ [][Next]_vars

\* ------------------------------------------------------ POST /api/convert
transform == <<pc, args, locals, outcome>>

InitPost ==
  /\ request \in Requests
  /\ hpc = "formData"
  /\ InitHandlerLocals
  /\ InitPage
  /\ rows = [i \in Procs |-> <<>>]
  /\ options = [i \in Procs |-> NoOptions]
  /\ pc = [i \in Procs |-> "idle"]
  /\ InitLocals

\* An exception inside the try block transfers control to the catch clause.
raise(error) == thrown' = error /\ hpc' = "catch"

respond(response) == responses' = Append(responses, response) /\ hpc' = "done"

\* Line 16: await request.formData()
ReadForm ==
  /\ hpc = "formData"
  /\ IF request.formData = "rejects"
     THEN raise(RawError)
     ELSE hpc' = "file" /\ UNCHANGED thrown
  /\ UNCHANGED <<request, workbook, jsonRows, transformResult, outWorkbook,
                 excelArrayBuffer, responses, transform, page>>

\* Lines 17-29: the file field must hold a File.
CheckFile ==
  /\ hpc = "file"
  /\ IF ~request.file.isFile
     THEN respond(errorResponse("INVALID_TEMPLATE",
                                "Missing uploaded file under field \"file\".", 400))
     ELSE hpc' = "arrayBuffer" /\ UNCHANGED responses
  /\ UNCHANGED <<request, workbook, jsonRows, transformResult, outWorkbook,
                 excelArrayBuffer, thrown, transform, page>>

\* Line 31: await file.arrayBuffer()
ReadBuffer ==
  /\ hpc = "arrayBuffer"
  /\ IF ~request.file.readable
     THEN raise(RawError)
     ELSE hpc' = "parse" /\ UNCHANGED thrown
  /\ UNCHANGED <<request, workbook, jsonRows, transformResult, outWorkbook,
                 excelArrayBuffer, responses, transform, page>>

\* Line 33: workbookFromBuffer(buffer)
ParseWorkbook ==
  /\ hpc = "parse"
  /\ LET r == workbookFromBuffer(request.file)
     IN IF r.error.raised
        THEN raise(r.error) /\ UNCHANGED workbook
        ELSE workbook' = r.value /\ hpc' = "extract" /\ UNCHANGED thrown
  /\ UNCHANGED <<request, jsonRows, transformResult, outWorkbook, excelArrayBuffer,
                 responses, transform, page>>

\* Line 34: rowsFromWorkbook(workbook)
ExtractRows ==
  /\ hpc = "extract"
  /\ LET r == rowsFromWorkbook(workbook)
     IN IF r.error.raised
        THEN raise(r.error) /\ UNCHANGED jsonRows
        ELSE jsonRows' = r.value /\ hpc' = "transform" /\ UNCHANGED thrown
  /\ UNCHANGED <<request, workbook, transformResult, outWorkbook, excelArrayBuffer,
                 responses, transform, page>>

\* Line 35: the call transformMatrixRows(rows, { defaultPrice: DEFAULT_PRICE })
CallTransform ==
  /\ hpc = "transform"
  /\ pc[1] = "idle"
  /\ rows' = [rows EXCEPT ![1] = jsonRows]
  /\ options' = [options EXCEPT ![1] = WithDefaultPrice(Num(ROUTE_DEFAULT_PRICE))]
  /\ pc' = [pc EXCEPT ![1] = "start"]
  /\ hpc' = "transforming"
  /\ UNCHANGED <<request, workbook, jsonRows, transformResult, outWorkbook,
                 excelArrayBuffer, thrown, responses, locals, outcome, page>>

\* Line 35: the call returns or throws.
TransformReturn ==
  /\ hpc = "transforming"
  /\ pc[1] = "done"
  /\ IF outcome[1].kind = "error"
     THEN raise(Caught(outcome[1].message, outcome[1].code)) /\ UNCHANGED transformResult
     ELSE transformResult' = outcome[1] /\ hpc' = "build" /\ UNCHANGED thrown
  /\ UNCHANGED <<request, workbook, jsonRows, outWorkbook, excelArrayBuffer, responses,
                 transform, page>>

\* Line 36: createWorkbookFromQuotation(transformResult)
BuildWorkbook ==
  /\ hpc = "build"
  /\ IF request.fault = "build"
     THEN raise(RawError) /\ UNCHANGED outWorkbook
     ELSE /\ outWorkbook' = createWorkbookFromQuotation(transformResult)
          /\ hpc' = "serialize"
          /\ UNCHANGED thrown
  /\ UNCHANGED <<request, workbook, jsonRows, transformResult, excelArrayBuffer,
                 responses, transform, page>>

\* Line 37: serializeWorkbook(outWorkbook)
SerializeWorkbook ==
  /\ hpc = "serialize"
  /\ LET r == serializeWorkbook(outWorkbook, request.fault = "serialize")
     IN IF r.error.raised
        THEN raise(r.error) /\ UNCHANGED excelArrayBuffer
        ELSE excelArrayBuffer' = r.value /\ hpc' = "respond" /\ UNCHANGED thrown
  /\ UNCHANGED <<request, workbook, jsonRows, transformResult, outWorkbook, responses,
                 transform, page>>

\* Lines 38-50: the success response.
RespondSuccess ==
  /\ hpc = "respond"
  /\ respond(successResponse(transformResult, request.file.name, excelArrayBuffer))
  /\ UNCHANGED <<request, workbook, jsonRows, transformResult, outWorkbook,
                 excelArrayBuffer, thrown, transform, page>>

\* Lines 51-75: the catch clause.
Catch ==
  /\ hpc = "catch"
  /\ respond(catchResponse(thrown))
  /\ UNCHANGED <<request, workbook, jsonRows, transformResult, outWorkbook,
                 excelArrayBuffer, thrown, transform, page>>

POST ==
  \/ ReadForm \/ CheckFile \/ ReadBuffer \/ ParseWorkbook \/ ExtractRows
  \/ CallTransform \/ TransformReturn \/ BuildWorkbook \/ SerializeWorkbook
  \/ RespondSuccess \/ Catch

NextPost == POST \/ transformMatrixRows(1)

SpecPost == InitPost /\ [][NextPost]_vars

\* --------------------------------------------------------- the upload page
server == <<pc, args, locals, outcome, handler>>

\* Lines 84-100: a file is chosen; the state is set and the request sent.
handleFileChange(file) ==
  /\ uploads < MaxUploads
  /\ pageStatus' = "processing"
  /\ pageError' = NullValue
  /\ pageWarnings' = <<>>
  /\ sourceName' = file
  /\ inflight' = inflight \cup { [id |-> uploads + 1, file |-> file] }
  /\ uploads' = uploads + 1
  /\ UNCHANGED <<pageRows, pageTotals, excelBase64, server>>

\* Lines 102-130: the call waiting at its fetch resumes with the answer.
handleResponse(call, reply) ==
  /\ call \in inflight
  /\ inflight' = inflight \ {call}
  /\ IF reply = NetworkFailure
     THEN /\ pageStatus' = "error"
          /\ pageError' = Some(reply.error.message)
          /\ UNCHANGED <<pageRows, pageTotals, pageWarnings, excelBase64>>
     ELSE IF ~reply.ok \/ reply.error.code # ""
     THEN /\ pageStatus' = "error"
          /\ pageError' = Some(reply.error.message)
          /\ UNCHANGED <<pageRows, pageTotals, pageWarnings, excelBase64>>
     ELSE /\ pageRows' = reply.data.rows
          /\ pageTotals' = Some(reply.data.totals)
          /\ pageWarnings' = reply.data.warnings
          /\ excelBase64' = Some(reply.data.excelBase64)
          /\ pageStatus' = "ready"
          /\ UNCHANGED pageError
  /\ UNCHANGED <<sourceName, uploads, server>>

\* Line 232: the table, with the download and reset buttons, is rendered.
TableShown == pageStatus = "ready" /\ Len(pageRows) > 0 /\ ~pageTotals.isNull

\* Lines 71-79, behind the button of line 305.
resetState ==
  /\ TableShown
  /\ pageStatus' = "idle"
  /\ pageRows' = <<>>
  /\ pageTotals' = NullValue
  /\ pageWarnings' = <<>>
  /\ pageError' = NullValue
  /\ excelBase64' = NullValue
  /\ sourceName' = ""
  /\ UNCHANGED <<inflight, uploads, server>>

\* Any waiting call may be answered next, by the server or by a failure.
receiveResponse ==
  \E call \in inflight :
    \E reply \in {ServerReply(call.file), NetworkFailure} : handleResponse(call, reply)

selectFile == \E file \in FilePool : handleFileChange(file)

NextPage ==
  \/ selectFile
  \/ receiveResponse
  \/ resetState

InitPageSpec ==
  /\ InitPage
  /\ rows = [i \in Procs |-> <<>>]
  /\ options = [i \in Procs |-> NoOptions]
  /\ pc = [i \in Procs |-> "idle"]
  /\ InitLocals
  /\ hpc = "none"
  /\ request = NoRequest
  /\ InitHandlerLocals

SpecPage == InitPageSpec /\ [][NextPage]_vars

\* ------------------------------------------ two independent invocations
PairOptionsPool == { NoOptions, WithDefaultPrice(Num(900)) }

InitPair ==
  /\ rows \in [Procs -> PairInputs]
  /\ options \in [Procs -> PairOptionsPool]
  /\ pc = [i \in Procs |-> "start"]
  /\ InitLocals
  /\ hpc = "none"
  /\ request = NoRequest
  /\ InitHandlerLocals
  /\ InitPage

NextPair == \E i \in Procs : transformMatrixRows(i)

SpecPair == InitPair /\ [][NextPair]_vars

\* ------------------------------------------------- reference definitions
\* The expansion stated directly over the input, without the loops.
RefKeys(rs) ==
  (UNION { { rs[r][k][1] : k \in 1..Len(rs[r]) } : r \in 1..Len(rs) }) \ { <<>> }

RefHasModelHeader(rs) == \E h \in RefKeys(rs) : normalizeHeader(h) = cModel

RefVariants(rs) == { h \in RefKeys(rs) : normalizeHeader(h) \notin FIXED_COLUMNS }

RefFirstRow(rs, h) ==
  CHOOSE r \in 1..Len(rs) :
    /\ hasKey(rs[r], h)
    /\ \A q \in 1..(r - 1) : ~hasKey(rs[q], h)

RefKeyPos(row, h) == CHOOSE k \in 1..Len(row) : row[k][1] = h

\* a is seen before b when the keys of the rows are read row after row.
RefSeenBefore(rs, a, b) ==
  LET ra == RefFirstRow(rs, a)
      rb == RefFirstRow(rs, b)
  IN \/ ra < rb
     \/ ra = rb /\ RefKeyPos(rs[ra], a) < RefKeyPos(rs[rb], b)

RefColumns(rs) ==
  LET V == RefVariants(rs)
  IN CHOOSE cs \in [1..Cardinality(V) -> V] :
       \A a, b \in 1..Cardinality(V) : a < b => RefSeenBefore(rs, cs[a], cs[b])

RefField(row, upper, lower) ==
  IF hasKey(row, upper) /\ rowGet(row, upper).t \notin {"undefined", "null"}
  THEN rowGet(row, upper)
  ELSE rowGet(row, lower)

RefModel(row) ==
  LET f == RefField(row, hModel, hmodel)
  IN IF f.t \in {"undefined", "null"} THEN <<>> ELSE trim(templateString(f))

RefDefaultPrice(opts) ==
  IF opts.present /\ opts.defaultPrice.t = "number" THEN opts.defaultPrice.v ELSE DEFAULT_PRICE

RefPriceValid(row) ==
  LET n == parseNumber(RefField(row, hPrice, hprice))
  IN n.t = "number" /\ n.v > 0

RefPrice(row, opts) ==
  IF RefPriceValid(row)
  THEN parseNumber(RefField(row, hPrice, hprice)).v
  ELSE RefDefaultPrice(opts)

RefPositive(row, h) ==
  LET n == parseNumber(rowGet(row, h))
  IN n.t = "number" /\ n.v > 0

\* x * y rounded to the nearest cent, a tie going away from zero.
RefRoundedProduct(a, b) ==
  LET exact == a * b
      unit == Scale * Cent
      below == (Abs(exact) \div unit) * unit
      up == 2 * (Abs(exact) - below) >= unit
      cents == (below \div unit) + (IF up THEN 1 ELSE 0)
  IN (IF exact < 0 THEN -1 ELSE 1) * cents * Cent

RefRowCells(row, cols, opts) ==
  LET sel == SelectSeq(cols, LAMBDA h : RefPositive(row, h))
  IN [k \in 1..Len(sel) |->
        [modelNo |-> RefModel(row), categoryName |-> RefModel(row), color |-> trim(sel[k]),
         qty |-> parseNumber(rowGet(row, sel[k])).v,
         priceUSD |-> RefPrice(row, opts),
         amountUSD |-> RefRoundedProduct(parseNumber(rowGet(row, sel[k])).v,
                                         RefPrice(row, opts))]]

RECURSIVE RefRows(_, _, _)
RefRows(rs, cols, opts) ==
  IF rs = <<>> THEN <<>>
  ELSE RefRows(SubSeq(rs, 1, Len(rs) - 1), cols, opts)
         \o (IF RefModel(rs[Len(rs)]) = <<>> THEN <<>>
             ELSE RefRowCells(rs[Len(rs)], cols, opts))

RECURSIVE SumQty(_)
SumQty(qrows) == IF qrows = <<>> THEN 0 ELSE Head(qrows).qty + SumQty(Tail(qrows))

RECURSIVE SumAmount(_)
SumAmount(qrows) == IF qrows = <<>> THEN 0 ELSE Head(qrows).amountUSD + SumAmount(Tail(qrows))

\* The multiple of one cent nearest to x, a tie going away from zero.
RefRound2(n) ==
  LET lo == (Abs(n) \div Cent) * Cent
      m == IF 2 * (Abs(n) - lo) >= Cent THEN lo + Cent ELSE lo
  IN IF n < 0 THEN -m ELSE m

Returned(i) == pc[i] = "done" /\ outcome[i].kind = "result"

Threw(i, code) == pc[i] = "done" /\ outcome[i].kind = "error" /\ outcome[i].code = code

\* The number of variant cells, over the rows that are not skipped, that
\* hold a positive quantity.
RefPositiveCells(rs) ==
  Cardinality({ <<r, h>> \in (1..Len(rs)) \X RefVariants(rs) :
                  RefModel(rs[r]) # <<>> /\ RefPositive(rs[r], h) })

\* ------------------------------------------------------------------ claims
\* C1: every row of a returned result has qty > 0; a cell whose quantity is
\* <= 0 or unparsable (absent cells included) never produces an output row,
\* so there are no more output rows than cells holding a positive quantity.
C1_QtyPositive ==
  /\ \A k \in 1..Len(resultRows[1]) : resultRows[1][k].qty > 0
  /\ Returned(1) =>
       /\ \A k \in 1..Len(outcome[1].rows) : outcome[1].rows[k].qty > 0
       /\ Len(outcome[1].rows) <= RefPositiveCells(rows[1])

\* A result was returned from an input holding a zero cell, a negative cell,
\* an unparsable cell and absent cells.
C1_Witness ==
  /\ Returned(1)
  /\ \E r \in 1..Len(rows[1]) : rows[1][r] = RowRedFirst
  /\ \E r \in 1..Len(rows[1]) : rows[1][r] \in {RowBadCell, RowNegative}

\* C2: in every returned result totals.totalQty is the sum of qty over the
\* result's rows and totals.totalAmount is the sum of their (already
\* rounded) amountUSD, rounded to 2 decimals; nothing else is counted.
C2_Totals ==
  Returned(1) =>
    /\ outcome[1].totals.totalQty = SumQty(outcome[1].rows)
    /\ outcome[1].totals.totalAmount = RefRound2(SumAmount(outcome[1].rows))

\* A result with several rows whose rounded amounts add up to something
\* else than the rounded sum of the exact products, next to a skipped row.
C2_Witness ==
  /\ Returned(1)
  /\ Len(outcome[1].rows) >= 2
  /\ Len(outcome[1].warnings) >= 1
  /\ \E k \in 1..Len(outcome[1].rows) :
       outcome[1].rows[k].amountUSD * Scale
         # outcome[1].rows[k].qty * outcome[1].rows[k].priceUSD

\* C3: the rows of a returned result are the reference expansion, in order:
\* raw rows in input order without the rows whose model is empty, variant
\* columns in first-seen order of the header union, one row per positive
\* cell with modelNo = categoryName = trimmed model, color = trimmed
\* header, the row's price and amountUSD = qty * price rounded to cents.
C3_ReferenceExpansion ==
  Returned(1) => outcome[1].rows = RefRows(rows[1], RefColumns(rows[1]), options[1])

\* Two raw rows that list the variant columns in different orders both
\* produced output.
C3_Witness ==
  /\ Returned(1)
  /\ Len(rows[1]) = 2
  /\ Len(outcome[1].rows) >= 3
  /\ outcome[1].rows[1].modelNo # outcome[1].rows[Len(outcome[1].rows)].modelNo
  /\ \E a, b \in RefVariants(rows[1]) :
       /\ hasKey(rows[1][1], a) /\ hasKey(rows[1][1], b)
       /\ hasKey(rows[1][2], a) /\ hasKey(rows[1][2], b)
       /\ RefKeyPos(rows[1][1], a) < RefKeyPos(rows[1][1], b)
       /\ RefKeyPos(rows[1][2], a) > RefKeyPos(rows[1][2], b)

\* C4 as stated: whenever no header normalizes to "model" (the empty row
\* sequence and rows without headers included) the call fails with
\* INVALID_TEMPLATE.
C4_Original ==
  (pc[1] = "done" /\ ~RefHasModelHeader(rows[1])) => Threw(1, "INVALID_TEMPLATE")

\* C4 amended: when no header normalizes to "model" the call fails, with
\* INVALID_TEMPLATE if the rows carry at least one non-empty header and with
\* PARSE_ERROR if they carry none (the empty sequence included).
C4_NoModelColumn ==
  (pc[1] = "done" /\ ~RefHasModelHeader(rows[1])) =>
    IF RefKeys(rows[1]) = {} THEN Threw(1, "PARSE_ERROR") ELSE Threw(1, "INVALID_TEMPLATE")

\* A call on rows that have headers, but no model header, has failed.
C4_Witness ==
  /\ pc[1] = "done"
  /\ ~RefHasModelHeader(rows[1])
  /\ RefKeys(rows[1]) # {}
  /\ Threw(1, "INVALID_TEMPLATE")

\* C5: with a model header and a variant column in the header union, the
\* call throws EMPTY_RESULT exactly when no row was emitted; otherwise it
\* returns the emitted rows (at least one) with the totals and every
\* collected warning. No error follows an emitted row.
C5_EmptyResult ==
  /\ (pc[1] = "done" /\ RefHasModelHeader(rows[1]) /\ RefVariants(rows[1]) # {}) =>
       IF resultRows[1] = <<>>
       THEN Threw(1, "EMPTY_RESULT")
       ELSE /\ Returned(1)
            /\ outcome[1].rows = resultRows[1]
            /\ outcome[1].warnings = warnings[1]
            /\ outcome[1].totals.totalQty = totalQty[1]
  /\ Returned(1) => outcome[1].rows # <<>>
  /\ resultRows[1] # <<>> => outcome[1].kind # "error"

\* A valid template whose cells are all zero, negative or unparsable ended
\* in EMPTY_RESULT after warnings had been collected.
C5_Witness ==
  /\ Threw(1, "EMPTY_RESULT")
  /\ warnings[1] # <<>>
  /\ Len(rows[1]) = 2

CountPriceWarnings(ws) == Len(SelectSeq(ws, LAMBDA w : w = priceWarning))

\* C6: a raw row that is not skipped uses, for all its output rows, the
\* parsed Price/price value when that is a number > 0; otherwise it uses
\* options.defaultPrice (0.8 when unset) and records exactly one
\* price-fallback warning; a row with a valid price records none.
C6_PriceResolution ==
  [][ /\ (pc[1] = "row" /\ pc'[1] = "cell") =>
         LET row == rows[1][index[1] + 1]
         IN /\ price'[1] = RefPrice(row, options[1])
            /\ warnings'[1] =
                 warnings[1] \o (IF RefPriceValid(row) THEN <<>> ELSE <<priceWarning>>)
      /\ (pc[1] = "cell" /\ resultRows'[1] # resultRows[1]) =>
         /\ resultRows'[1][Len(resultRows'[1])].priceUSD
              = RefPrice(rows[1][index[1] + 1], options[1])
         /\ CountPriceWarnings(warnings'[1]) = CountPriceWarnings(warnings[1])
    ]_vars

\* A result holds a row priced from its Price field and a row priced with
\* the caller's default, and carries one price warning.
C6_Witness ==
  /\ Returned(1)
  /\ options[1] = WithDefaultPrice(Num(900))
  /\ \E k \in 1..Len(outcome[1].rows) : outcome[1].rows[k].priceUSD = 900
  /\ \E k \in 1..Len(outcome[1].rows) : outcome[1].rows[k].priceUSD \notin {900, DEFAULT_PRICE}
  /\ CountPriceWarnings(outcome[1].warnings) = 1

\* C7: every emitted QuotationRow has priceUSD > 0, whatever the rows and
\* whatever options (any defaultPrice) the caller passes.
C7_PricePositive ==
  \A k \in 1..Len(resultRows[1]) : resultRows[1][k].priceUSD > 0

\* The call of invocation i has a next step to take.
CanStep(i) ==
  \/ pc[i] = "start"
  \/ pc[i] = "row" /\ index[i] <= Len(rows[i])
  \/ pc[i] = "cell" /\ index[i] < Len(rows[i]) /\ col[i] < Len(colorColumns[i])

\* C8: a POST request ends with exactly one JSON response and nothing
\* escapes the handler. The response is a success (200, with rows, totals,
\* warnings, metadata and excelBase64) only when parse, row extraction,
\* transform, workbook build and serialization all succeeded, each on the
\* result of the one before; otherwise it is {error:{code,message}} without
\* result data, with 400 for INVALID_TEMPLATE or a missing file, 422 for
\* EMPTY_RESULT and 500 for PARSE_ERROR or an unclassified error.
C8_OneJsonResponse ==
  /\ Len(responses) <= 1
  /\ (hpc = "done") <=> (Len(responses) = 1)
  /\ hpc \notin {"done", "none", "transforming"} => ENABLED POST
  /\ hpc = "transforming" => (ENABLED TransformReturn \/ CanStep(1))
  /\ hpc = "done" =>
       LET r == responses[1]
       IN IF r.ok
          THEN /\ r.status = 200
               /\ ~thrown.raised
               /\ request.formData = "ok" /\ request.file.isFile
               /\ request.file.readable /\ request.file.decodable
               /\ workbook = request.file.workbook
               /\ jsonRows # <<>> /\ rows[1] = jsonRows
               /\ Returned(1) /\ transformResult = outcome[1]
               /\ request.fault = "none"
               /\ Len(outWorkbook.Sheets[1]) = Len(transformResult.rows) + 1
               /\ excelArrayBuffer.written /\ excelArrayBuffer.bytesOf = outWorkbook
               /\ r.data.rows = outcome[1].rows /\ r.data.rows # <<>>
               /\ r.data.totals = outcome[1].totals
               /\ r.data.warnings = outcome[1].warnings
               /\ r.data.metadata.rowCount = Len(outcome[1].rows)
               /\ r.data.metadata.sourceName = request.file.name
               /\ r.data.excelBase64 = excelArrayBuffer
          ELSE /\ r.data = NoData
               /\ r.error.code \in {"INVALID_TEMPLATE", "EMPTY_RESULT", "PARSE_ERROR"}
               /\ r.error.code = "INVALID_TEMPLATE" => r.status = 400
               /\ r.error.code = "EMPTY_RESULT" => r.status = 422
               /\ r.error.code = "PARSE_ERROR" => r.status = 500
               /\ (request.formData = "ok" /\ ~request.file.isFile) => r.status = 400
               /\ (thrown.raised /\ ~thrown.isTransformError) =>
                    (r.error.code = "PARSE_ERROR" /\ r.status = 500)
               /\ pc[1] = "done" /\ outcome[1].kind = "error" =>
                    r.error.code = outcome[1].code
               /\ (Returned(1) /\ request.fault # "none") => r.status = 500

\* A sheet that parsed and was transformed to no rows was answered with 422.
C8_Witness ==
  /\ hpc = "done"
  /\ jsonRows # <<>>
  /\ Threw(1, "EMPTY_RESULT")
  /\ responses[1].status = 422
  /\ responses[1].data = NoData

\* C9: createWorkbookFromQuotation builds one sheet whose data rows are the
\* result's rows in order followed by exactly one total row (color "total:",
\* QTY = totals.totalQty, Amount (USD) = totals.totalAmount, the other
\* cells blank); the result it was given is left as the transform made it.
C9_WorkbookRows ==
  outWorkbook # NoWorkbook =>
    LET sheet == outWorkbook.Sheets[1]
        n == Len(transformResult.rows)
    IN /\ Len(outWorkbook.Sheets) = 1
       /\ Len(sheet) = n + 1
       /\ \A k \in 1..n :
            /\ sheet[k]["Model No."] = Str(transformResult.rows[k].modelNo)
            /\ sheet[k]["Category / Name"] = Str(transformResult.rows[k].categoryName)
            /\ sheet[k]["color"] = Str(transformResult.rows[k].color)
            /\ sheet[k]["QTY"] = Num(transformResult.rows[k].qty)
            /\ sheet[k]["PRICE (USD)"] = Num(transformResult.rows[k].priceUSD)
            /\ sheet[k]["Amount (USD)"] = Num(transformResult.rows[k].amountUSD)
       /\ sheet[n + 1]["color"] = Str(cTotal)
       /\ sheet[n + 1]["QTY"] = Num(transformResult.totals.totalQty)
       /\ sheet[n + 1]["Amount (USD)"] = Num(transformResult.totals.totalAmount)
       /\ sheet[n + 1]["Model No."] = Str(<<>>)
       /\ sheet[n + 1]["Category / Name"] = Str(<<>>)
       /\ sheet[n + 1]["PRICE (USD)"] = Str(<<>>)
       /\ transformResult = outcome[1]

\* A workbook was built from a result of several rows.
C9_Witness ==
  /\ outWorkbook # NoWorkbook
  /\ Len(transformResult.rows) >= 3
  /\ Len(outWorkbook.Sheets[1]) = Len(transformResult.rows) + 1
  /\ transformResult.totals.totalQty # transformResult.totals.totalAmount

\* The warnings of the reference expansion.
RefRowWarnings(row, r, cols) ==
  IF RefModel(row) = <<>>
  THEN << missingModelWarning(r - 1) >>
  ELSE (IF RefPriceValid(row) THEN <<>> ELSE <<priceWarning>>)
         \o LET bad == SelectSeq(cols, LAMBDA h : parseNumber(rowGet(row, h)).t # "number")
            IN [k \in 1..Len(bad) |-> invalidQuantityWarning(r - 1, bad[k])]

RECURSIVE RefWarnings(_, _, _)
RefWarnings(rs, n, cols) ==
  IF n = 0 THEN <<>>
  ELSE RefWarnings(rs, n - 1, cols) \o RefRowWarnings(rs[n], n, cols)

\* What one call on (rs, opts) yields when nothing else runs.
RefOutcome(rs, opts) ==
  LET cols == RefColumns(rs)
      out == RefRows(rs, cols, opts)
      fail(code) == [kind |-> "error", code |-> code, rows |-> <<>>,
                     totals |-> [totalQty |-> 0, totalAmount |-> 0], warnings |-> <<>>]
  IN IF RefKeys(rs) = {} THEN fail("PARSE_ERROR")
     ELSE IF ~RefHasModelHeader(rs) \/ RefVariants(rs) = {} THEN fail("INVALID_TEMPLATE")
     ELSE IF out = <<>> THEN fail("EMPTY_RESULT")
     ELSE [kind |-> "result", code |-> "", rows |-> out,
           totals |-> [totalQty |-> SumQty(out), totalAmount |-> RefRound2(SumAmount(out))],
           warnings |-> RefWarnings(rs, Len(rs), cols)]

Observed(i) ==
  [kind |-> outcome[i].kind, code |-> outcome[i].code, rows |-> outcome[i].rows,
   totals |-> outcome[i].totals, warnings |-> outcome[i].warnings]

\* C10: transformMatrixRows keeps no state between calls: under every
\* interleaving of two invocations each one's outcome (rows, totals,
\* warnings or error code) is the outcome of running it alone on its own
\* input, and two runs on the same rows and options agree on rows and totals.
C10_NoSharedState ==
  /\ \A i \in Procs : pc[i] = "done" => Observed(i) = RefOutcome(rows[i], options[i])
  /\ \A i, j \in Procs :
       (pc[i] = "done" /\ pc[j] = "done" /\ rows[i] = rows[j] /\ options[i] = options[j]) =>
         (outcome[i].rows = outcome[j].rows /\ outcome[i].totals = outcome[j].totals)

\* Two invocations on different inputs have both returned, each with
\* warnings of its own.
C10_Witness ==
  /\ Returned(1) /\ Returned(2)
  /\ rows[1] # rows[2]
  /\ outcome[1].warnings # <<>>
  /\ outcome[2].warnings # outcome[1].warnings

\* The normalized names of the fixed columns, as the specification lists them.
C11FixedNames ==
  { <<"m", "o", "d", "e", "l">>, <<"q", "t", "y">>, <<"p", "r", "i", "c", "e">>,
    <<"a", "m", "o", "u", "n", "t", ",", "u", "s", "d">>,
    <<"a", "m", "o", "u", "n", "t">>,
    <<"a", "m", "o", "u", "n", "t", "u", "s", "d">> }

C11Variants(rs) == { h \in RefKeys(rs) : normalizeHeader(h) \notin C11FixedNames }

\* C11: the variant columns are exactly the headers of the header union
\* whose normalized name is not one of model, qty, price, "amount,usd",
\* amount, amountusd, whatever their casing and spacing; no output row has
\* a color taken from a fixed column; a header union with a model header
\* but no variant column fails with INVALID_TEMPLATE.
C11_VariantColumns ==
  /\ (pc[1] \in {"row", "cell"} \/ Returned(1) \/ Threw(1, "EMPTY_RESULT")) =>
       /\ { colorColumns[1][k] : k \in 1..Len(colorColumns[1]) } = C11Variants(rows[1])
       /\ Len(colorColumns[1]) = Cardinality(C11Variants(rows[1]))
  /\ \A k \in 1..Len(resultRows[1]) :
       /\ normalizeHeader(resultRows[1][k].color) \notin C11FixedNames
       /\ \E h \in C11Variants(rows[1]) : trim(h) = resultRows[1][k].color
  /\ (pc[1] = "done" /\ RefHasModelHeader(rows[1]) /\ C11Variants(rows[1]) = {}) =>
       Threw(1, "INVALID_TEMPLATE")

\* A result was returned from rows whose fixed headers are written with
\* capitals and inner spaces ('Qty', 'Amount, usd'), one row holding fixed
\* columns only.
C11_Witness ==
  /\ Returned(1)
  /\ hAmountUsd \in RefKeys(rows[1])
  /\ hQty \in RefKeys(rows[1])
  /\ \E r \in 1..Len(rows[1]) : rows[1][r] = RowNoVariant
  /\ Len(colorColumns[1]) = 2

\* The warnings one raw row contributes; i is its zero-based index.
C12RowWarnings(row, i, cols) ==
  IF RefModel(row) = <<>>
  THEN << [row |-> i + 2, column |-> <<>>, text |-> "Missing model name, skipping."] >>
  ELSE LET unparsable == SelectSeq(cols, LAMBDA h : parseNumber(rowGet(row, h)) = Null)
       IN (IF RefPriceValid(row) THEN <<>>
           ELSE << [row |-> 0, column |-> <<>>,
                    text |-> "Price column missing or invalid; fallback to default price."] >>)
          \o [k \in 1..Len(unparsable) |->
                [row |-> i + 2, column |-> unparsable[k], text |-> "Invalid quantity, ignored."]]

RECURSIVE C12Warnings(_, _, _)
C12Warnings(rs, n, cols) ==
  IF n = 0 THEN <<>>
  ELSE C12Warnings(rs, n - 1, cols) \o C12RowWarnings(rs[n], n - 1, cols)

\* C12: the warnings of a returned result are, in raw-row order: for a row
\* whose model is empty, the one warning "Row i+2: Missing model name,
\* skipping." and nothing else; for any other row the price-fallback warning
\* if the price fell back, then one "Row i+2, column ..." warning per
\* unparsable variant cell in column order. A quantity <= 0 adds no warning,
\* and an unparsable cell does not keep the later columns of the row from
\* being processed.
C12_WarningSequence ==
  Returned(1) =>
    /\ outcome[1].warnings = C12Warnings(rows[1], Len(rows[1]), RefColumns(rows[1]))
    /\ Len(outcome[1].rows) = RefPositiveCells(rows[1])

\* A result carries, in this order, the warning of a skipped first row, the
\* price warning of the second row and the warning of that row's unparsable
\* first cell, and a row emitted from the cell after it.
C12_Witness ==
  /\ Returned(1)
  /\ Len(outcome[1].warnings) = 3
  /\ outcome[1].warnings[1].text = "Missing model name, skipping."
  /\ outcome[1].warnings[1].row = 2
  /\ outcome[1].warnings[2] = priceWarning
  /\ outcome[1].warnings[3].text = "Invalid quantity, ignored."
  /\ outcome[1].warnings[3].row = 3
  /\ outcome[1].warnings[3].column = colorColumns[1][1]
  /\ Len(outcome[1].rows) = 1
  /\ outcome[1].rows[1].color = trim(colorColumns[1][2])

\* The value row holds under header h, as text; <<>> when it holds none.
C13ModelText(row, h) ==
  IF hasKey(row, h) /\ rowGet(row, h).t \notin {"undefined", "null"}
  THEN trim(templateString(rowGet(row, h)))
  ELSE <<>>

\* C13: the model column the template test accepts is the one the row
\* expander reads: when a raw row holds a non-empty value under a header
\* that normalizes to "model" (any casing or spacing) and a positive
\* quantity in some variant column, the row is not skipped as "Missing
\* model name" and its output rows are emitted with that model.
C13_SameModelColumn ==
  pc[1] = "done" =>
    \A r \in 1..Len(rows[1]) : \A h \in RefKeys(rows[1]) :
      ( /\ normalizeHeader(h) = <<"m", "o", "d", "e", "l">>
        /\ C13ModelText(rows[1][r], h) # <<>>
        /\ \E c \in RefVariants(rows[1]) : RefPositive(rows[1][r], c) )
      => /\ Returned(1)
         /\ \A k \in 1..Len(outcome[1].warnings) :
              ~(outcome[1].warnings[k].row = r + 1 /\ outcome[1].warnings[k].column = <<>>)
         /\ \E k \in 1..Len(outcome[1].rows) :
              outcome[1].rows[k].modelNo = C13ModelText(rows[1][r], h)

\* C14. Once the page is ready it shows the rows, totals, warnings and
\* spreadsheet of the file selected last, the one its source name shows;
\* in the error state the table and its download button are not rendered.
C14_ShowsLatestUpload ==
  /\ pageStatus = "ready" =>
       /\ sourceName \in FilePool
       /\ LET reply == ServerReply(sourceName)
          IN /\ reply.ok
             /\ pageRows = reply.data.rows
             /\ pageTotals = Some(reply.data.totals)
             /\ pageWarnings = reply.data.warnings
             /\ excelBase64 = Some(reply.data.excelBase64)
  /\ pageStatus = "error" => ~TableShown

====
